---- MODULE Spec2Model ----
(***************************************************************************)
(* Model of the menu-driven task manager in src/src/main.rs.               *)
(*                                                                         *)
(* The program is one loop over standard input.  Its state is the task     *)
(* vector, the identifier counter, the position of the control flow (which *)
(* read_line call it is blocked in, or whether it has left the loop), the  *)
(* String buffer filled by the last read_line, and what the last step      *)
(* printed.  Text is modelled as a sequence of one-character strings so    *)
(* that trim, parse and Display formatting are computed, not assumed.      *)
(* usize is taken to be 64 bits wide.                                      *)
(***************************************************************************)
EXTENDS Integers, Sequences, FiniteSets, TLC

\* Cap on the number of tasks pushed (the Vec itself is unbounded).
MaxTasks == 2

VARIABLES
    tasks,    \* the Vec<Task> of main
    next_id,  \* the identifier counter of main
    pc,       \* "menu", "desc", "id": the read_line the loop is blocked in;
              \* "done": after break; "panicked": after a failed unwrap
    input,    \* the buffer filled by the last read_line
    out,      \* what the last step printed
    addLog,   \* history: the description lines that were pushed, in order
    doneLog   \* history: the ids printed by "Task {} completed!"

vars == <<tasks, next_id, pc, input, out, addLog, doneLog>>

----------------------------------------------------------------------------
(* Text helpers *)

DigitChars == <<"0", "1", "2", "3", "4", "5", "6", "7", "8", "9">>

IsDigit(c) == \E i \in 1..10 : DigitChars[i] = c

DigitVal(c) == (CHOOSE i \in 1..10 : DigitChars[i] = c) - 1

\* char::is_whitespace, restricted to the characters that occur in Lines
IsWhitespace(c) == c \in {" ", "\n", "\t", "\r"}

RECURSIVE TrimStart(_)
TrimStart(s) ==
    IF s = <<>> THEN <<>>
    ELSE IF IsWhitespace(Head(s)) THEN TrimStart(Tail(s))
    ELSE s

RECURSIVE TrimEnd(_)
TrimEnd(s) ==
    IF s = <<>> THEN <<>>
    ELSE IF IsWhitespace(s[Len(s)]) THEN TrimEnd(SubSeq(s, 1, Len(s) - 1))
    ELSE s

\* str::trim
Trim(s) == TrimEnd(TrimStart(s))

\* Display for usize: the decimal numeral of n, no sign, no leading zeros
RECURSIVE Numeral(_)
Numeral(n) ==
    IF n < 10 THEN <<DigitChars[n + 1]>>
    ELSE Numeral(n \div 10) \o <<DigitChars[(n % 10) + 1]>>

\* usize::MAX = 2^64 - 1 as a numeral
UsizeMax ==
    <<"1", "8", "4", "4", "6", "7", "4", "4", "0", "7",
      "3", "7", "0", "9", "5", "5", "1", "6", "1", "5">>

RECURSIVE StripZeros(_)
StripZeros(s) ==
    IF Len(s) > 1 /\ Head(s) = "0" THEN StripZeros(Tail(s)) ELSE s

\* a < b for two digit sequences of the same length
RECURSIVE DigitsLess(_, _)
DigitsLess(a, b) ==
    IF a = <<>> THEN FALSE
    ELSE IF DigitVal(Head(a)) < DigitVal(Head(b)) THEN TRUE
    ELSE IF DigitVal(Head(a)) > DigitVal(Head(b)) THEN FALSE
    ELSE DigitsLess(Tail(a), Tail(b))

\* variant: the digit loop without its overflow checks
OverflowsNever(digits) == FALSE

\* the checked multiply/add of the digit loop overflows exactly when the
\* value of the digits exceeds usize::MAX
Overflows(digits) ==
    LET d == StripZeros(digits)
    IN  \/ Len(d) > Len(UsizeMax)
        \/ Len(d) = Len(UsizeMax) /\ DigitsLess(UsizeMax, d)

\* str::parse::<usize>: Ok(value) or Err.  The value is kept as its numeral
\* because it can exceed the integers of the model checker.
ParseUsize(s) ==
    LET err == [ok |-> FALSE, val |-> <<>>]
    IN  IF s = <<>> THEN err
        ELSE IF Len(s) = 1 /\ Head(s) \in {"+", "-"} THEN err
        ELSE LET digits == IF Head(s) = "+" THEN Tail(s) ELSE s
             IN  IF \E i \in 1..Len(digits) : ~IsDigit(digits[i]) THEN err
                 ELSE IF Overflows(digits) THEN err
                 ELSE [ok |-> TRUE, val |-> StripZeros(digits)]

----------------------------------------------------------------------------
(* Input *)

\* What read_line can leave in the buffer: a line with its terminator, or
\* the rest of the stream when it ends without one ("" at end of input).
Lines ==
    { <<>>,
      <<"\n">>,
      <<" ", "\n">>,
      <<"1", "\n">>,
      <<"2", "\n">>,
      <<"3", "\n">>,
      <<"4", "\n">>,
      <<" ", "4", " ", "\r", "\n">>,
      <<"0", "\n">>,
      <<"+", "1", "\n">>,
      <<"-", "1", "\n">>,
      <<"\t", "a", " ", "\n">>,
      UsizeMax \o <<"\n">>,
      <<"1", "8", "4", "4", "6", "7", "4", "4", "0", "7",
        "3", "7", "0", "9", "5", "5", "1", "6", "1", "6", "\n">> }

----------------------------------------------------------------------------
(* Task *)

\* variant: a task created already completed
TaskNewCompleted(id, description) ==
    [id |-> id, description |-> description, completed |-> TRUE]

TaskNew(id, description) ==
    [id |-> id, description |-> description, completed |-> FALSE]

\* variant: the two status marks swapped
TaskStatusSwapped(task) == IF task.completed THEN "todo" ELSE "done"

TaskStatus(task) == IF task.completed THEN "done" ELSE "todo"

\* variant: lookup by position in the vector instead of by id
FindByIndex(ts, id) ==
    IF \E i \in 1..Len(ts) : Numeral(i - 1) = id
    THEN CHOOSE i \in 1..Len(ts) : Numeral(i - 1) = id
    ELSE 0

\* tasks.iter_mut().find(|t| t.id == id): index of the first match, 0 if none
Find(ts, id) ==
    IF \E i \in 1..Len(ts) : Numeral(ts[i].id) = id
    THEN CHOOSE i \in 1..Len(ts) :
            /\ Numeral(ts[i].id) = id
            /\ \A j \in 1..(i - 1) : Numeral(ts[j].id) # id
    ELSE 0

\* variant: the flag is flipped instead of set
SetCompletedToggles(task) == [task EXCEPT !.completed = ~task.completed]

\* task.completed = true
SetCompleted(task) == [task EXCEPT !.completed = TRUE]

\* one table row per task, in vector order
Rows(ts) ==
    [i \in 1..Len(ts) |->
        [id |-> Numeral(ts[i].id),
         description |-> ts[i].description,
         status |-> TaskStatus(ts[i])]]

Msg(kind, id, rows) == [kind |-> kind, id |-> id, rows |-> rows]

----------------------------------------------------------------------------
(* The program *)

\* variant: the counter is bumped by two
NextIdSkips(n) == n + 2

\* variant: the counter is never bumped
NextIdStuck(n) == n

InitNextId == 1

NextId(n) == n + 1

Init ==
    /\ tasks = <<>>
    /\ next_id = InitNextId
    /\ pc = "menu"
    /\ input = <<>>
    /\ out = Msg("welcome", <<>>, <<>>)
    /\ addLog = <<>>
    /\ doneLog = {}

\* menu choice "1": prompt for the description
ChooseAdd(line) ==
    /\ pc = "menu"
    /\ Trim(line) = <<"1">>
    /\ input' = line
    /\ pc' = "desc"
    /\ out' = Msg("prompt_desc", <<>>, <<>>)
    /\ UNCHANGED <<tasks, next_id, addLog, doneLog>>

\* variant: a rejected description still consumes an identifier
AddRejectedConsumesId(line) ==
    /\ pc = "desc"
    /\ Trim(line) = <<>>
    /\ input' = line
    /\ pc' = "menu"
    /\ out' = Msg("empty_description", <<>>, <<>>)
    /\ next_id' = next_id + 1
    /\ UNCHANGED <<tasks, addLog, doneLog>>

\* description read, empty after trimming
AddRejected(line) ==
    /\ pc = "desc"
    /\ Trim(line) = <<>>
    /\ input' = line
    /\ pc' = "menu"
    /\ out' = Msg("empty_description", <<>>, <<>>)
    /\ UNCHANGED <<tasks, next_id, addLog, doneLog>>

\* description read, non-empty after trimming
AddTask(line) ==
    /\ pc = "desc"
    /\ Trim(line) # <<>>
    /\ Len(tasks) < MaxTasks
    /\ input' = line
    /\ tasks' = Append(tasks, TaskNew(next_id, Trim(line)))
    /\ out' = Msg("added", Numeral(next_id), <<>>)
    /\ next_id' = NextId(next_id)
    /\ pc' = "menu"
    /\ addLog' = Append(addLog, line)
    /\ UNCHANGED doneLog

\* menu choice "2"
ListTasks(line) ==
    /\ pc = "menu"
    /\ Trim(line) = <<"2">>
    /\ input' = line
    /\ out' = IF tasks = <<>> THEN Msg("no_tasks", <<>>, <<>>)
              ELSE Msg("table", <<>>, Rows(tasks))
    /\ UNCHANGED <<tasks, next_id, pc, addLog, doneLog>>

\* menu choice "3": prompt for the id
ChooseComplete(line) ==
    /\ pc = "menu"
    /\ Trim(line) = <<"3">>
    /\ input' = line
    /\ pc' = "id"
    /\ out' = Msg("prompt_id", <<>>, <<>>)
    /\ UNCHANGED <<tasks, next_id, addLog, doneLog>>

\* variant: a completed task is taken out of the vector
CompleteRemoves(ts, text) ==
    LET parsed == ParseUsize(Trim(text))
    IN  IF parsed.ok
        THEN LET i == Find(ts, parsed.val)
             IN  IF i # 0
                 THEN [tasks |-> SubSeq(ts, 1, i - 1) \o SubSeq(ts, i + 1, Len(ts)),
                       out |-> Msg("completed", parsed.val, <<>>)]
                 ELSE [tasks |-> ts,
                       out |-> Msg("not_found", parsed.val, <<>>)]
        ELSE [tasks |-> ts, out |-> Msg("invalid_id", <<>>, <<>>)]

\* the id branch applied to a store: the new task vector and the message
Complete(ts, text) ==
    LET parsed == ParseUsize(Trim(text))
    IN  IF parsed.ok
        THEN LET i == Find(ts, parsed.val)
             IN  IF i # 0
                 THEN [tasks |-> [ts EXCEPT ![i] = SetCompleted(ts[i])],
                       out |-> Msg("completed", parsed.val, <<>>)]
                 ELSE [tasks |-> ts,
                       out |-> Msg("not_found", parsed.val, <<>>)]
        ELSE [tasks |-> ts, out |-> Msg("invalid_id", <<>>, <<>>)]

\* id text read
CompleteTask(line) ==
    /\ pc = "id"
    /\ input' = line
    /\ tasks' = Complete(tasks, line).tasks
    /\ out' = Complete(tasks, line).out
    /\ pc' = "menu"
    /\ doneLog' = IF out'.kind = "completed"
                  THEN doneLog \cup {out'.id} ELSE doneLog
    /\ UNCHANGED <<next_id, addLog>>

\* menu choice "4"
Quit(line) ==
    /\ pc = "menu"
    /\ Trim(line) = <<"4">>
    /\ input' = line
    /\ pc' = "done"
    /\ out' = Msg("goodbye", <<>>, <<>>)
    /\ UNCHANGED <<tasks, next_id, addLog, doneLog>>

\* any other menu choice
InvalidChoice(line) ==
    /\ pc = "menu"
    /\ Trim(line) \notin {<<"1">>, <<"2">>, <<"3">>, <<"4">>}
    /\ input' = line
    /\ out' = Msg("invalid_choice", <<>>, <<>>)
    /\ UNCHANGED <<tasks, next_id, pc, addLog, doneLog>>

\* read_line returns Err (the bytes read are not valid UTF-8) and unwrap
\* panics; the buffer is left as it was
ReadError ==
    /\ pc \in {"menu", "desc", "id"}
    /\ pc' = "panicked"
    /\ out' = Msg("panic", <<>>, <<>>)
    /\ UNCHANGED <<tasks, next_id, input, addLog, doneLog>>

Next ==
    \/ \E line \in Lines : ChooseAdd(line)
    \/ \E line \in Lines : AddRejected(line)
    \/ \E line \in Lines : AddTask(line)
    \/ \E line \in Lines : ListTasks(line)
    \/ \E line \in Lines : ChooseComplete(line)
    \/ \E line \in Lines : CompleteTask(line)
    \/ \E line \in Lines : Quit(line)
    \/ \E line \in Lines : InvalidChoice(line)
    \/ ReadError

Spec == Init /\ [][Next]_vars

----------------------------------------------------------------------------
(* Properties *)

Prompts == {"menu", "desc", "id"}

\* the id texts of Lines that are not a decimal usize: empty, blank,
\* non-numeric, negative, and 2^64
BadIdLines ==
    { <<>>,
      <<"\n">>,
      <<" ", "\n">>,
      <<"-", "1", "\n">>,
      <<"\t", "a", " ", "\n">>,
      <<"1", "8", "4", "4", "6", "7", "4", "4", "0", "7",
        "3", "7", "0", "9", "5", "5", "1", "6", "1", "6", "\n">> }

\* some task of ts carries the identifier written as the numeral id
Present(ts, id) == \E i \in 1..Len(ts) : Numeral(ts[i].id) = id

\* C1: the k-th successful add is given the identifier k, whatever other
\* commands came before it: the task pushed carries k and the confirmation
\* prints k.
C1_SequentialIds ==
    [][Len(addLog') = Len(addLog) + 1 =>
         /\ Len(tasks') = Len(tasks) + 1
         /\ tasks'[Len(tasks')].id = Len(addLog')
         /\ out' = Msg("added", Numeral(Len(addLog')), <<>>)]_vars

\* the second add has succeeded after a rejected one
C1_Witness ==
    /\ out.kind = "added"
    /\ out.id = <<"2">>
    /\ Len(tasks) = 2
    /\ tasks[2].id = 2

\* C2: a description that is empty after trimming is rejected, and the task
\* vector and next_id are the same after the step as before it.
C2_EmptyAddRejected ==
    [][(pc = "desc" /\ pc' = "menu" /\ input' \in {<<>>, <<"\n">>, <<" ", "\n">>}) =>
         /\ out'.kind = "empty_description"
         /\ tasks' = tasks
         /\ next_id' = next_id]_vars

\* a whitespace-only description has just been rejected in a non-empty store
C2_Witness ==
    /\ out.kind = "empty_description"
    /\ input = <<" ", "\n">>
    /\ Len(tasks) = 1
    /\ next_id = 2

\* C3: completing a well-formed identifier that no task carries reports
\* not-found and leaves the tasks, their order and next_id unchanged.
C3_NotFoundNoChange ==
    [][(/\ pc = "id"
        /\ pc' = "menu"
        /\ input' \notin BadIdLines
        /\ ~Present(tasks, ParseUsize(Trim(input')).val)) =>
         /\ out'.kind = "not_found"
         /\ tasks' = tasks
         /\ next_id' = next_id]_vars

\* identifier 0 has just been reported not found in a non-empty store
C3_Witness ==
    /\ out.kind = "not_found"
    /\ out.id = <<"0">>
    /\ Len(tasks) >= 1

\* C4: completing a present identifier succeeds and leaves that task
\* completed; doing it again gives the same tasks and the same message.
C4_CompleteIdempotent ==
    [][(/\ pc = "id"
        /\ pc' = "menu"
        /\ input' \notin BadIdLines
        /\ Present(tasks, ParseUsize(Trim(input')).val)) =>
         /\ out'.kind = "completed"
         /\ \A i \in 1..Len(tasks') :
               Numeral(tasks'[i].id) = out'.id => tasks'[i].completed
         /\ Complete(tasks', input') = [tasks |-> tasks', out |-> out']
         /\ (\A i \in 1..Len(tasks) :
               Numeral(tasks[i].id) = out'.id => tasks[i].completed)
            => tasks' = tasks]_vars

\* task 1 has just been completed by the text "+1" with both tasks done
C4_Witness ==
    /\ out.kind = "completed"
    /\ out.id = <<"1">>
    /\ input = <<"+", "1", "\n">>
    /\ Len(tasks) = 2
    /\ tasks[1].completed
    /\ tasks[2].completed

\* what list has to show for the adds and completes logged so far
ExpectedRows ==
    [i \in 1..Len(addLog) |->
        [id |-> Numeral(i),
         description |-> Trim(addLog[i]),
         status |-> IF Numeral(i) \in doneLog THEN "done" ELSE "todo"]]

\* C5: list shows one row per successful add, in the order added, with the
\* trimmed description and the done mark exactly for the ids a complete
\* succeeded on; it prints the empty notice for an empty store, and it
\* changes neither the tasks nor next_id.
C5_ListShowsAdds ==
    [][(pc = "menu" /\ pc' # "panicked" /\ Trim(input') = <<"2">>) =>
         /\ out' = IF addLog = <<>> THEN Msg("no_tasks", <<>>, <<>>)
                   ELSE Msg("table", <<>>, ExpectedRows)
         /\ tasks' = tasks
         /\ next_id' = next_id
         /\ pc' = "menu"]_vars

\* a list of two tasks, the first one done
C5_Witness ==
    /\ out.kind = "table"
    /\ Len(out.rows) = 2
    /\ out.rows[1].status = "done"
    /\ out.rows[2].status = "todo"
    /\ out.rows[2].description = <<"a">>

\* C6: the identifiers in the store are pairwise distinct and next_id is
\* greater than each of them.
C6_DistinctIdsBelowNext ==
    /\ \A i, j \in 1..Len(tasks) : tasks[i].id = tasks[j].id => i = j
    /\ \A i \in 1..Len(tasks) : tasks[i].id < next_id

\* two tasks are in the store
C6_Witness == Len(tasks) >= 2 /\ pc = "menu"

\* C7: a task is created not completed, and a completed task stays
\* completed in every step.
C7_CompletedMonotone ==
    [][/\ \A i \in 1..Len(tasks) :
             tasks[i].completed =>
                /\ i <= Len(tasks')
                /\ tasks'[i].id = tasks[i].id
                /\ tasks'[i].completed
       /\ Len(tasks') > Len(tasks) => ~tasks'[Len(tasks')].completed]_vars

\* task 1 was completed and task 2 has just been added after it
C7_Witness ==
    /\ Len(tasks) = 2
    /\ tasks[1].completed
    /\ ~tasks[2].completed
    /\ out.kind = "added"

\* C8: the loop is left when and only when the line read at the menu prompt
\* trims to "4"; every other step returns to the menu prompt, and an
\* invalid selection changes neither the tasks nor next_id.
C8_OnlyQuitTerminates ==
    [][/\ pc' \notin Prompts => (pc = "menu" /\ Trim(input') = <<"4">>)
       /\ (pc = "menu" /\ Trim(input') = <<"4">>) => pc' = "done"
       /\ pc \in {"desc", "id"} => pc' = "menu"
       /\ (pc = "menu" /\ Trim(input') \notin {<<"1">>, <<"2">>, <<"3">>, <<"4">>}) =>
             /\ pc' = "menu"
             /\ tasks' = tasks
             /\ next_id' = next_id]_vars

\* C9: an id text that is not a decimal usize gets the invalid-identifier
\* message and changes neither the tasks nor next_id; not-found is printed
\* only for a text that is one.
C9_InvalidIdRejected ==
    [][(pc = "id" /\ pc' = "menu") =>
         /\ input' \in BadIdLines =>
               /\ out'.kind = "invalid_id"
               /\ tasks' = tasks
               /\ next_id' = next_id
         /\ out'.kind = "not_found" => input' \notin BadIdLines
         /\ out'.kind = "invalid_id" => input' \in BadIdLines]_vars

\* 2^64 has just been rejected as an identifier in a non-empty store
C9_Witness ==
    /\ out.kind = "invalid_id"
    /\ Len(input) = 21
    /\ Len(tasks) >= 1

\* C10: a successful complete changes only the completed flag of the task
\* with the given id, and no step removes a task or changes the id or the
\* description of one.
C10_CompleteFrame ==
    [][/\ Len(tasks') >= Len(tasks)
       /\ \A i \in 1..Len(tasks) :
             /\ tasks'[i].id = tasks[i].id
             /\ tasks'[i].description = tasks[i].description
       /\ (pc = "id" /\ out'.kind = "completed") =>
             /\ Len(tasks') = Len(tasks)
             /\ next_id' = next_id
             /\ \A i \in 1..Len(tasks) :
                   Numeral(tasks[i].id) # out'.id =>
                      tasks'[i].completed = tasks[i].completed]_vars

\* task 1 has just been completed and task 2 is still open
C10_Witness ==
    /\ out.kind = "completed"
    /\ out.id = <<"1">>
    /\ Len(tasks) = 2
    /\ tasks[1].completed
    /\ ~tasks[2].completed

====
